---- MODULE Spec2Model ----
(***************************************************************************)
(* A model of etstool.py: the module-level configuration sets, the         *)
(* parameter resolver get_parameters, the context manager do_in_tempdir,   *)
(* the command executor execute, and the five click subcommands.           *)
(*                                                                         *)
(* A string that the code builds with ' '.join(...) and later hands to     *)
(* shlex.split is kept as its sequence of space-separated tokens.  The     *)
(* iteration order of a Python set is not fixed by the code; SetToSeq      *)
(* enumerates a set in one order and no formula below depends on it.       *)
(***************************************************************************)
EXTENDS Integers, Sequences, FiniteSets, TLC

VARIABLES
    dependencies,       \* module-level set, etstool.py:85
    test_dependencies,  \* module-level set, etstool.py:94
    toolkits,           \* module-level dict of sets, etstool.py:101
    pypi_dependencies,  \* module-level set, etstool.py:107
    repo_dependencies,  \* module-level set, etstool.py:114
    pc,                 \* position of the process
    last_call,          \* arguments of the latest get_parameters call
    result,             \* what the latest get_parameters call produced
    cmd,                \* the subcommand given on the command line
    flags,              \* its parsed options
    tc,                 \* test_clean: "none", "try" or "finally"
    todo,               \* test_clean: the tasks left in the try block
    pending,            \* test_clean: the exception its finally re-raises
    task,               \* the command callback that is running
    parameters,         \* the Parameter Set of the running callback
    commands,           \* execute: the list of command templates
    idx,                \* execute: index of the current command
    status,             \* execute: exit status of the latest child
    exc,                \* the exception that is propagating, or "none"
    trace,              \* echoes and child-process events, in order
    os_environ,         \* os.environ entries set by the script
    cwd,                \* the working directory of the process
    old_path,           \* do_in_tempdir: the directory saved on entry
    tmp_exists,         \* whether the directory made by mkdtemp exists
    tmp_files,          \* names of the files in the temporary directory
    orig_files,         \* names of the files in the original directory
    copy_left,          \* do_in_tempdir: input files still to be copied
    glob_left,          \* do_in_tempdir: glob matches still to be copied
    copied_back,        \* files copied back to the original directory
    exit_code           \* exit status of the script, -1 while it runs

vars == <<dependencies, test_dependencies, toolkits, pypi_dependencies,
          repo_dependencies, pc, last_call, result, cmd, flags, tc, todo,
          pending, task, parameters, commands, idx, status, exc, trace,
          os_environ, cwd, old_path, tmp_exists, tmp_files, orig_files,
          copy_left, glob_left, copied_back, exit_code>>

config_vars == <<dependencies, test_dependencies, toolkits,
                 repo_dependencies>>

(***************************************************************************)
(* Bounds and input sets.                                                  *)
(***************************************************************************)
MaxStatus == 2

Runtimes == {"2.7", "3.5"}
Toolkits == {"pyside", "pyqt4"}
Versions == {"latest", "0.9.8", "0.10.2"}
ValidSources == {"edm", "pypi", "github"}
Sources == ValidSources \cup {"conda"}

None == [is_none |-> TRUE, val |-> ""]
Some(s) == [is_none |-> FALSE, val |-> s]
Environments == {None, Some("myenv"), Some("")}

(***************************************************************************)
(* The module-level configuration as it is at module load.                 *)
(***************************************************************************)
LoadDependencies ==
    {"apptools", "enable", "pyopengl", "six", "mayavi", "vtk"}

LoadTestDependencies == {"cython", "nose", "coverage", "wheel"}

LoadToolkits ==
    [t \in {"pyside", "pyqt4"} |->
        IF t = "pyside" THEN {"pyside"} ELSE {"pyqt<4.12"}]

LoadPypiDependencies == {"traits", "traitsui", "pyopengl", "mayavi"}

LoadRepoDependencies ==
    {"git+https://github.com/nucleic/enaml.git#egg=enaml",
     "git+https://github.com/enthought/traits.git#egg=traits",
     "git+https://github.com/enthought/traitsui.git#egg=traitsui",
     "git+https://github.com/mcfletch/pyopengl.git#egg=pyopengl",
     "git+https://github.com/nucleic/atom.git#egg=atom",
     "git+https://github.com/enthought/mayavi.git#egg=mayavi"}

environment_vars ==
    [t \in {"pyside", "pyqt"} |->
        IF t = "pyside"
        THEN {<<"ETS_TOOLKIT", "qt4">>, <<"QT_API", "pyside">>}
        ELSE {<<"ETS_TOOLKIT", "qt4">>, <<"QT_API", "pyqt">>}]

(***************************************************************************)
(* Helpers for strings kept as token sequences.                            *)
(***************************************************************************)
RECURSIVE SetToSeq(_)
SetToSeq(S) ==
    IF S = {} THEN <<>>
    ELSE LET x == CHOOSE y \in S : TRUE
         IN  <<x>> \o SetToSeq(S \ {x})

\* ' '.join(s) for a set s, as the tokens the joined string splits into
Join(S) == SetToSeq(S)

Count(seq, x) == Cardinality({i \in 1..Len(seq) : seq[i] = x})

Range(seq) == {seq[i] : i \in 1..Len(seq)}

(***************************************************************************)
(* get_parameters (etstool.py:268-300).                                    *)
(* The result carries the exception raised ("none" if it returned), the    *)
(* returned Parameter Set (a sequence of length 0 or 1) and the value of   *)
(* pypi_dependencies after the call: pip_packages is bound to the          *)
(* module-level set itself, so .add() on it changes that set.              *)
(***************************************************************************)
ToolkitsGet(toolkit) ==
    IF toolkit \in DOMAIN toolkits THEN toolkits[toolkit] ELSE {}

EnamlEntry(op, version) ==
    IF version = "latest" THEN "enaml" ELSE ("enaml" \o op) \o version

SourceIsNoneOfTheThree_NeverRaises(source) == FALSE

SourceIsNoneOfTheThree(source) ==
    source # "edm" /\ source # "pypi" /\ source # "github"

EnvironmentName_Truthiness(runtime, toolkit, environment) ==
    IF environment.is_none \/ environment.val = ""
    THEN (("traits-enaml-" \o runtime) \o "-") \o toolkit
    ELSE environment.val

EnvironmentName(runtime, toolkit, environment) ==
    IF environment.is_none
    THEN (("traits-enaml-" \o runtime) \o "-") \o toolkit
    ELSE environment.val

GetParameters(runtime, toolkit, environment, version, source) ==
    LET edm0 == test_dependencies \cup dependencies \cup ToolkitsGet(toolkit)
        edm_packages ==
            IF source = "edm"
            THEN edm0 \cup {EnamlEntry("^=", version)}
            ELSE edm0
        pypi_after ==
            IF source = "pypi"
            THEN pypi_dependencies \cup {EnamlEntry("==", version)}
            ELSE pypi_dependencies
        pip_packages ==
            IF source = "edm" THEN {}
            ELSE IF source = "pypi" THEN pypi_after
            ELSE IF source = "github" THEN repo_dependencies
            ELSE {}
    IN  IF SourceIsNoneOfTheThree(source)
        THEN [raises |-> "ValueError", ret |-> <<>>, pypi |-> pypi_after]
        ELSE [raises |-> "none",
              ret |-> << [runtime |-> runtime,
                          test_packages |-> Join(test_dependencies),
                          edm_packages |-> Join(edm_packages),
                          pip_packages |-> Join(pip_packages),
                          environment |->
                              EnvironmentName(runtime, toolkit,
                                              environment)] >>,
              pypi |-> pypi_after]

NoCall == [runtime |-> "", toolkit |-> "", environment |-> None,
           version |-> "", source |-> ""]

NoResult == [raises |-> "none", ret |-> <<>>, pypi |-> {}]

NoFlags == [runtime |-> "", toolkit |-> "", environment |-> None,
            enaml |-> "", source |-> ""]

NoParameters == [runtime |-> "", test_packages |-> <<>>,
                 edm_packages |-> <<>>, pip_packages |-> <<>>,
                 environment |-> ""]

Init ==
    /\ dependencies = LoadDependencies
    /\ test_dependencies = LoadTestDependencies
    /\ toolkits = LoadToolkits
    /\ pypi_dependencies = LoadPypiDependencies
    /\ repo_dependencies = LoadRepoDependencies
    /\ pc = "loaded"
    /\ last_call = NoCall
    /\ result = NoResult
    /\ cmd = ""
    /\ flags = NoFlags
    /\ tc = "none"
    /\ todo = <<>>
    /\ pending = "none"
    /\ task = ""
    /\ parameters = NoParameters
    /\ commands = <<>>
    /\ idx = 0
    /\ status = 0
    /\ exc = "none"
    /\ trace = <<>>
    /\ os_environ = {}
    /\ cwd = "orig"
    /\ old_path = ""
    /\ tmp_exists = FALSE
    /\ tmp_files = {}
    /\ orig_files \in {{}, {".coveragerc"}}
    /\ copy_left = <<>>
    /\ glob_left = {}
    /\ copied_back = {}
    /\ exit_code = -1

(***************************************************************************)
(* A direct call of get_parameters by a program that imported the module.  *)
(***************************************************************************)
GetParametersCall ==
    /\ pc \in {"loaded", "library"}
    /\ \E runtime \in Runtimes, toolkit \in Toolkits,
          environment \in Environments, version \in Versions,
          source \in Sources :
          LET r == GetParameters(runtime, toolkit, environment, version,
                                 source)
          IN  /\ last_call' = [runtime |-> runtime, toolkit |-> toolkit,
                               environment |-> environment,
                               version |-> version, source |-> source]
              /\ result' = r
              /\ pypi_dependencies' = r.pypi
    /\ pc' = "library"
    /\ UNCHANGED <<config_vars, cmd, flags, tc, todo, pending, task,
                   parameters, commands, idx, status, exc, trace,
                   os_environ, cwd, old_path, tmp_exists, tmp_files,
                   orig_files, copy_left, glob_left, copied_back,
                   exit_code>>

(***************************************************************************)
(* Command templates.  A template is kept as the tokens shlex.split cuts   *)
(* it into; a token is a literal followed by at most one placeholder.      *)
(***************************************************************************)
L(lit) == [lit |-> lit, ph |-> ""]
P(lit, ph) == [lit |-> lit, ph |-> ph]

CreateTemplate ==
    <<L("edm"), L("environments"), L("create"), P("", "environment"),
      L("--force"), P("--version=", "runtime")>>

EdmInstallTemplate ==
    <<L("edm"), L("install"), L("-y"), L("-e"), P("", "environment"),
      P("", "test_packages"), P("", "edm_packages")>>

PipInstallDotTemplate ==
    <<L("edm"), L("run"), L("-e"), P("", "environment"), L("--"), L("pip"),
      L("install"), L(".")>>

PipInstallTemplate ==
    <<L("edm"), L("run"), L("-e"), P("", "environment"), L("--"), L("pip"),
      L("install"), L("-U"), P("", "pip_packages")>>

TestTemplate ==
    <<L("edm"), L("run"), L("-e"), P("", "environment"), L("--"),
      L("coverage"), L("run"), L("-p"), L("-m"), L("nose.core"), L("-v"),
      L("traits_enaml"), L("--nologcapture")>>

CleanTemplate ==
    <<L("edm"), L("run"), L("-e"), P("", "environment"), L("--"),
      L("python"), L("setup.py"), L("clean")>>

RemoveTemplate ==
    <<L("edm"), L("environments"), L("remove"), P("", "environment"),
      L("--purge"), L("-y")>>

\* list.insert(i, x) with a 0-based index i
Insert(seq, i, x) == SubSeq(seq, 1, i) \o <<x>> \o SubSeq(seq, i + 1, Len(seq))

InstallCommands(params) ==
    LET base == <<CreateTemplate, EdmInstallTemplate, PipInstallDotTemplate>>
    IN  IF Len(params.pip_packages) > 0
        THEN Insert(base, 2, PipInstallTemplate)
        ELSE base

CommandsOf(t, params) ==
    CASE t = "install" -> InstallCommands(params)
      [] t = "test"    -> <<TestTemplate>>
      [] t = "cleanup" -> <<CleanTemplate, RemoveTemplate>>
      [] t = "update"  -> <<PipInstallDotTemplate>>

\* shlex.split(command.format(**parameters)): the argv of the child
ExpandToken(tok, params) ==
    IF tok.ph = "" THEN <<tok.lit>>
    ELSE IF tok.ph \in {"environment", "runtime"}
         THEN LET s == tok.lit \o params[tok.ph]
              IN  IF s = "" THEN <<>> ELSE <<s>>
         ELSE params[tok.ph]

RECURSIVE Format(_, _)
Format(template, params) ==
    IF template = <<>> THEN <<>>
    ELSE ExpandToken(Head(template), params) \o Format(Tail(template), params)

ProgressEcho(t, params) ==
    CASE t = "install" ->
            ("Creating environment '" \o params.environment) \o "'"
      [] t = "test" ->
            ("Running tests in '" \o params.environment) \o "'"
      [] t = "cleanup" ->
            ("Cleaning up environment '" \o params.environment) \o "'"
      [] t = "update" ->
            ("Re-installing in  '" \o params.environment) \o "'"

Event(ev, t, i, argv, st, text) ==
    [ev |-> ev, task |-> t, i |-> i, argv |-> argv, st |-> st, text |-> text]

Echo(t, text) == Event("echo", t, 0, <<>>, 0, text)

(***************************************************************************)
(* The click commands: the options each declares and the parameters its    *)
(* callback accepts.  click calls the callback with one keyword argument   *)
(* per declared option.                                                    *)
(***************************************************************************)
Subcommands == {"install", "test", "cleanup", "test_clean", "update"}

Options ==
    [c \in Subcommands |->
        IF c = "install"
        THEN {"runtime", "toolkit", "environment", "enaml", "source"}
        ELSE {"runtime", "toolkit", "environment"}]

Signature ==
    [c \in Subcommands |->
        IF c = "install"
        THEN {"runtime", "toolkit", "environment", "enaml", "source"}
        ELSE IF c = "test_clean"
             THEN {"runtime", "toolkit"}
             ELSE {"runtime", "toolkit", "environment"}]

CallbackBinds(c) == Options[c] = Signature[c]

(***************************************************************************)
(* do_in_tempdir and execute, as the choices their control flow makes.     *)
(***************************************************************************)
\* glob.iglob(pattern) against one file name of the current directory
GlobMatch(pattern, name) ==
    LET p == IF Len(pattern) >= 2 /\ SubSeq(pattern, 1, 2) = "./"
             THEN SubSeq(pattern, 3, Len(pattern))
             ELSE pattern
        n == Len(p)
    IN  IF n >= 1 /\ SubSeq(p, n, n) = "*"
        THEN /\ Len(name) >= n - 1
             /\ SubSeq(name, 1, n - 1) = SubSeq(p, 1, n - 1)
        ELSE name = p

TempdirFiles == <<".coveragerc">>
CapturePattern == "./.coverage*"

\* the files a test run may leave in its working directory
TestOutputs == {".coverage.host.101", ".coverage.host.102", "nosetests.log"}

\* os.chdir(old_path) in the finally clause of do_in_tempdir
CwdAfterFinally_NoChdir(current, old) == current

CwdAfterFinally(current, old) == old

\* the copy-back loop follows the yield inside the try block
CopyBackRuns_InFinally(e) == TRUE

CopyBackRuns(e) == e = "none"

\* execute: sys.exit(1) in the except clause for CalledProcessError
ChildFailureIsFatal_Ignored(st) == FALSE

ChildFailureIsFatal(st) == st # 0

(***************************************************************************)
(* Entering a command callback up to its first blocking step: the          *)
(* get_parameters call, the command list, the progress echo and, for       *)
(* test, the start of do_in_tempdir (mkdtemp, getcwd).                     *)
(***************************************************************************)
StartTask(t, runtime, toolkit, environment, version, source, tr) ==
    LET r == GetParameters(runtime, toolkit, environment, version, source)
        raised ==
            IF r.raises # "none" THEN r.raises
            ELSE IF /\ t = "install"
                    /\ source = "edm"
                    /\ Len(r.ret[1].pip_packages) # 0
                 THEN "AssertionError"
                 ELSE "none"
        params == IF r.raises = "none" THEN r.ret[1] ELSE NoParameters
    IN  /\ task' = t
        /\ last_call' = [runtime |-> runtime, toolkit |-> toolkit,
                         environment |-> environment, version |-> version,
                         source |-> source]
        /\ result' = r
        /\ pypi_dependencies' = r.pypi
        /\ parameters' = params
        /\ idx' = 1
        /\ exc' = raised
        /\ glob_left' = {}
        /\ IF raised # "none"
           THEN /\ pc' = "unwind"
                /\ commands' = <<>>
                /\ trace' = tr
                /\ os_environ' = os_environ
                /\ UNCHANGED <<old_path, tmp_exists, tmp_files, copy_left>>
           ELSE /\ commands' = CommandsOf(t, params)
                /\ trace' = Append(tr, Echo(t, ProgressEcho(t, params)))
                /\ IF t = "test"
                   THEN /\ tmp_exists' = TRUE
                        /\ tmp_files' = {}
                        /\ old_path' = cwd
                        /\ copy_left' = TempdirFiles
                        /\ pc' = "copy_in"
                        /\ os_environ' = os_environ
                   ELSE /\ pc' = "execute"
                        /\ os_environ' = os_environ
                        /\ UNCHANGED <<old_path, tmp_exists, tmp_files,
                                       copy_left>>

(***************************************************************************)
(* cli(): click parses the command line and calls the callback.            *)
(***************************************************************************)
Invoke ==
    /\ pc = "loaded"
    /\ \E c \in Subcommands, runtime \in Runtimes, toolkit \in Toolkits,
          environment \in Environments, enaml \in Versions,
          source \in ValidSources :
          /\ c # "install" => enaml = "latest" /\ source = "edm"
          /\ cmd' = c
          /\ flags' = [runtime |-> runtime, toolkit |-> toolkit,
                       environment |-> environment, enaml |-> enaml,
                       source |-> source]
          /\ IF ~CallbackBinds(c)
             THEN /\ exc' = "TypeError"
                  /\ pc' = "unwind"
                  /\ UNCHANGED <<pypi_dependencies, last_call, result, tc,
                                 todo, task, parameters, commands, idx,
                                 trace, os_environ, old_path, tmp_exists,
                                 tmp_files, copy_left, glob_left>>
             ELSE IF c = "test_clean"
                  THEN /\ tc' = "try"
                       /\ todo' = <<"test">>
                       /\ StartTask("install", runtime, toolkit, None,
                                    "latest", "edm", trace)
                  ELSE /\ UNCHANGED <<tc, todo>>
                       /\ StartTask(c, runtime, toolkit, environment,
                                    enaml, source, trace)
    /\ UNCHANGED <<config_vars, pending, status, cwd, orig_files,
                   copied_back, exit_code>>

(***************************************************************************)
(* do_in_tempdir (etstool.py:303-335), entered from test.                  *)
(***************************************************************************)
\* one turn of the loop that copies the input files into the tempdir
CopyIn ==
    /\ pc = "copy_in"
    /\ copy_left # <<>>
    /\ LET filepath == Head(copy_left)
           tr == Append(trace,
                        Echo(task, "copying file to tempdir: " \o filepath))
       IN  /\ trace' = tr
           /\ IF filepath \in orig_files
              THEN /\ tmp_files' = tmp_files \cup {filepath}
                   /\ copy_left' = Tail(copy_left)
                   /\ UNCHANGED <<pc, exc>>
              ELSE \* copyfile raises; nothing has entered the try block
                   /\ exc' = "IOError"
                   /\ pc' = "unwind"
                   /\ UNCHANGED <<tmp_files, copy_left>>
    /\ UNCHANGED <<config_vars, pypi_dependencies, last_call, result, cmd,
                   flags, tc, todo, pending, task, parameters, commands,
                   idx, status, os_environ, cwd, old_path, tmp_exists,
                   orig_files, glob_left, copied_back, exit_code>>

\* os.chdir(path), the yield, and the first statement of the with-block
EnterBody ==
    /\ pc = "copy_in"
    /\ copy_left = <<>>
    /\ cwd' = "tmp"
    /\ LET environ ==
               (IF last_call.toolkit \in DOMAIN environment_vars
                THEN environment_vars[last_call.toolkit]
                ELSE {}) \cup {<<"PYTHONUNBUFFERED", "1">>}
           keys == {kv[1] : kv \in environ}
       IN  os_environ' =
               {kv \in os_environ : kv[1] \notin keys} \cup environ
    /\ pc' = "execute"
    /\ UNCHANGED <<config_vars, pypi_dependencies, last_call, result, cmd,
                   flags, tc, todo, pending, task, parameters, commands,
                   idx, status, exc, trace, old_path, tmp_exists, tmp_files,
                   orig_files, copy_left, glob_left, copied_back, exit_code>>

\* control leaves the with-block, normally or with an exception
AfterYield ==
    /\ pc = "with_exit"
    /\ IF CopyBackRuns(exc)
       THEN LET found == {f \in tmp_files : GlobMatch(CapturePattern, f)}
            IN  /\ glob_left' = found
                /\ pc' = IF found = {} THEN "with_finally" ELSE "copy_back"
       ELSE /\ glob_left' = {}
            /\ pc' = "with_finally"
    /\ UNCHANGED <<config_vars, pypi_dependencies, last_call, result, cmd,
                   flags, tc, todo, pending, task, parameters, commands,
                   idx, status, exc, trace, os_environ, cwd, old_path,
                   tmp_exists, tmp_files, orig_files, copy_left,
                   copied_back, exit_code>>

\* one turn of the loop that copies a result file back
CopyBack ==
    /\ pc = "copy_back"
    /\ \E filepath \in glob_left, ok \in BOOLEAN :
          /\ trace' = Append(trace,
                             Echo(task, "copying file back: ./" \o filepath))
          /\ IF ok
             THEN /\ orig_files' = orig_files \cup {filepath}
                  /\ copied_back' = copied_back \cup {filepath}
                  /\ glob_left' = glob_left \ {filepath}
                  /\ pc' = IF glob_left' = {}
                           THEN "with_finally" ELSE "copy_back"
                  /\ UNCHANGED exc
             ELSE /\ exc' = "IOError"
                  /\ pc' = "with_finally"
                  /\ UNCHANGED <<orig_files, copied_back, glob_left>>
    /\ UNCHANGED <<config_vars, pypi_dependencies, last_call, result, cmd,
                   flags, tc, todo, pending, task, parameters, commands,
                   idx, status, os_environ, cwd, old_path, tmp_exists,
                   tmp_files, copy_left, exit_code>>

\* the finally clause: os.chdir(old_path); rmtree(path)
WithFinally ==
    /\ pc = "with_finally"
    /\ cwd' = CwdAfterFinally(cwd, old_path)
    /\ tmp_exists' = FALSE
    /\ tmp_files' = {}
    /\ pc' = IF exc = "none" THEN "task_done" ELSE "unwind"
    /\ UNCHANGED <<config_vars, pypi_dependencies, last_call, result, cmd,
                   flags, tc, todo, pending, task, parameters, commands,
                   idx, status, exc, trace, os_environ, old_path,
                   orig_files, copy_left, glob_left, copied_back, exit_code>>

(***************************************************************************)
(* execute (etstool.py:338-349).                                           *)
(***************************************************************************)
\* top of the loop body: echo the command line and start the child
ExecStart ==
    /\ pc = "execute"
    /\ idx <= Len(commands)
    /\ LET arguments == Format(commands[idx], parameters)
       IN  trace' = trace \o
                    <<Event("EXECUTING", task, idx, arguments, 0, ""),
                      Event("spawn", task, idx, arguments, 0, "")>>
    /\ pc' = "child"
    /\ UNCHANGED <<config_vars, pypi_dependencies, last_call, result, cmd,
                   flags, tc, todo, pending, task, parameters, commands,
                   idx, status, exc, os_environ, cwd, old_path, tmp_exists,
                   tmp_files, orig_files, copy_left, glob_left, copied_back,
                   exit_code>>

\* check_call returns or raises CalledProcessError; the except clause runs
ChildExit ==
    /\ pc = "child"
    /\ \E st \in 0..MaxStatus :
          /\ status' = st
          /\ exc' = IF ChildFailureIsFatal(st) THEN "SystemExit" ELSE "none"
          /\ trace' = Append(trace,
                             Event("exit", task, idx, <<>>, st, ""))
    /\ IF task = "test"
       THEN \E out \in SUBSET TestOutputs : tmp_files' = tmp_files \cup out
       ELSE UNCHANGED tmp_files
    /\ pc' = "exec_finally"
    /\ UNCHANGED <<config_vars, pypi_dependencies, last_call, result, cmd,
                   flags, tc, todo, pending, task, parameters, commands,
                   idx, os_environ, cwd, old_path, tmp_exists, orig_files,
                   copy_left, glob_left, copied_back, exit_code>>

\* the finally clause of the loop body, then the next turn or the raise
ExecFinally ==
    /\ pc = "exec_finally"
    /\ trace' = Append(trace, Event("DURATION", task, idx, <<>>, 0, ""))
    /\ IF exc = "none"
       THEN /\ idx' = idx + 1
            /\ pc' = "execute"
       ELSE /\ idx' = idx
            /\ pc' = IF task = "test" THEN "with_exit" ELSE "unwind"
    /\ UNCHANGED <<config_vars, pypi_dependencies, last_call, result, cmd,
                   flags, tc, todo, pending, task, parameters, commands,
                   status, exc, os_environ, cwd, old_path, tmp_exists,
                   tmp_files, orig_files, copy_left, glob_left, copied_back,
                   exit_code>>

\* the loop is exhausted and execute returns
ExecReturn ==
    /\ pc = "execute"
    /\ idx > Len(commands)
    /\ pc' = IF task = "test" THEN "with_exit" ELSE "task_done"
    /\ UNCHANGED <<config_vars, pypi_dependencies, last_call, result, cmd,
                   flags, tc, todo, pending, task, parameters, commands,
                   idx, status, exc, trace, os_environ, cwd, old_path,
                   tmp_exists, tmp_files, orig_files, copy_left, glob_left,
                   copied_back, exit_code>>

(***************************************************************************)
(* The end of a command callback, the try/finally of test_clean            *)
(* (etstool.py:234-239) and the end of the script.                         *)
(***************************************************************************)
\* click.echo('Done ...') and the return of the callback
TaskDone ==
    /\ pc = "task_done"
    /\ LET tr == Append(trace, Echo(task, "Done " \o task))
       IN  IF tc = "try" /\ todo # <<>>
           THEN /\ todo' = Tail(todo)
                /\ StartTask(Head(todo), flags.runtime, flags.toolkit, None,
                             "latest", "edm", tr)
                /\ UNCHANGED <<tc, pending, exit_code>>
           ELSE IF tc = "try"
           THEN /\ tc' = "finally"
                /\ StartTask("cleanup", flags.runtime, flags.toolkit, None,
                             "latest", "edm", tr)
                /\ UNCHANGED <<todo, pending, exit_code>>
           ELSE IF tc = "finally" /\ pending # "none"
           THEN /\ trace' = tr
                /\ exc' = pending
                /\ pc' = "unwind"
                /\ UNCHANGED <<pypi_dependencies, last_call, result, tc,
                               todo, pending, task, parameters, commands,
                               idx, os_environ, old_path, tmp_exists,
                               tmp_files, copy_left, glob_left, exit_code>>
           ELSE /\ trace' = tr
                /\ pc' = "exited"
                /\ exit_code' = 0
                /\ UNCHANGED <<pypi_dependencies, last_call, result, tc,
                               todo, pending, task, parameters, commands,
                               idx, exc, os_environ, old_path, tmp_exists,
                               tmp_files, copy_left, glob_left>>
    /\ UNCHANGED <<config_vars, cmd, flags, status, cwd, orig_files,
                   copied_back>>

\* an exception leaves the callback: through the finally of test_clean if
\* it was raised in its try block, and then out of cli() and the script
Unwind ==
    /\ pc = "unwind"
    /\ IF tc = "try"
       THEN /\ tc' = "finally"
            /\ pending' = exc
            /\ StartTask("cleanup", flags.runtime, flags.toolkit, None,
                         "latest", "edm", trace)
            /\ UNCHANGED <<todo, exit_code>>
       ELSE /\ pc' = "exited"
            /\ exit_code' = 1
            /\ UNCHANGED <<pypi_dependencies, last_call, result, tc, todo,
                           pending, task, parameters, commands, idx, exc,
                           trace, os_environ, old_path, tmp_exists,
                           tmp_files, copy_left, glob_left>>
    /\ UNCHANGED <<config_vars, cmd, flags, status, cwd, orig_files,
                   copied_back>>

Next ==
    \/ GetParametersCall
    \/ Invoke
    \/ CopyIn
    \/ EnterBody
    \/ AfterYield
    \/ CopyBack
    \/ WithFinally
    \/ ExecStart
    \/ ChildExit
    \/ ExecFinally
    \/ ExecReturn
    \/ TaskDone
    \/ Unwind

Spec == Init /\ [][Next]_vars

\* the steps the script takes by itself once the command line is parsed;
\* check_call blocks until the child has exited
Run ==
    \/ CopyIn
    \/ EnterBody
    \/ AfterYield
    \/ CopyBack
    \/ WithFinally
    \/ ExecStart
    \/ ChildExit
    \/ ExecFinally
    \/ ExecReturn
    \/ TaskDone
    \/ Unwind

\* a single thread that runs to completion, with children that exit
FairSpec == Spec /\ WF_vars(Run)

(***************************************************************************)
(* Properties.                                                             *)
(***************************************************************************)
\* control is outside do_in_tempdir and outside execute
LeftCallback == pc \in {"unwind", "task_done", "exited"}

TraceHas(ev, t) ==
    \E j \in 1..Len(trace) : trace[j].ev = ev /\ trace[j].task = t

ChildFailed(t) ==
    \E j \in 1..Len(trace) :
        trace[j].ev = "exit" /\ trace[j].task = t /\ trace[j].st # 0

\* C1: once control has left do_in_tempdir, the temporary directory that
\* mkdtemp created no longer exists, whatever the way out.
C1_TempdirDeletedOnEveryExit == LeftCallback => ~tmp_exists

\* C2: once control has left do_in_tempdir, the working directory is the
\* one the process was in on entry, whether the with-block ended normally,
\* raised, or a copy in or back failed.
C2_WorkingDirectoryRestored == LeftCallback => cwd = "orig"

C2_Witness ==
    /\ pc = "exited"
    /\ task = "test"
    /\ exc = "SystemExit"
    /\ TraceHas("DURATION", "test")
    /\ cwd = "orig"

C3_Order ==
    \A j \in 1..Len(trace) :
        LET e == trace[j]
        IN  /\ e.ev = "spawn" =>
                /\ e.i = Cardinality({m \in 1..j :
                                        /\ trace[m].ev = "spawn"
                                        /\ trace[m].task = e.task})
                /\ e.task = task => e.argv = Format(commands[e.i], parameters)
                /\ e.i > 1 =>
                      \E m \in 1..j :
                          /\ trace[m].ev = "exit"
                          /\ trace[m].task = e.task
                          /\ trace[m].i = e.i - 1
                          /\ trace[m].st = 0
                /\ j < Len(trace) =>
                      trace[j + 1].ev = "exit" /\ trace[j + 1].i = e.i
                /\ j = Len(trace) => pc = "child"
            /\ e.ev = "exit" =>
                /\ j < Len(trace) =>
                      trace[j + 1].ev = "DURATION" /\ trace[j + 1].i = e.i
                /\ j = Len(trace) => pc = "exec_finally"
                /\ e.st # 0 =>
                      \A m \in (j + 1)..Len(trace) :
                          ~(trace[m].ev = "spawn" /\ trace[m].task = e.task)

C3_Failed == \E t \in Subcommands : ChildFailed(t)

\* C3: execute starts the commands in list order, each once and only after
\* the previous child exited with status 0; every child that was started is
\* followed, right after its exit, by its [DURATION] line; nothing of the
\* list is started after a child that exited non-zero, and the script then
\* comes to its end with exit status 1.
C3_ExecuteStopsAtFirstFailure ==
    /\ [](C3_Order /\ (pc = "exited" /\ C3_Failed => exit_code = 1))
    /\ (C3_Failed ~> pc = "exited")

C3_Witness ==
    /\ pc = "exited"
    /\ task = "install"
    /\ idx = 2
    /\ Len(commands) > 2
    /\ status # 0
    /\ trace[Len(trace)].ev = "DURATION"
    /\ trace[Len(trace)].i = 2
    /\ exit_code = 1

\* C4: a subcommand called with valid flags ends with exit code 1 if a
\* child process it started exited non-zero and with 0 otherwise.
C4_ExitCodeFollowsChildren ==
    pc = "exited" => (exit_code = 1 <=> C3_Failed)

ExpectedEdm(call) ==
    LoadTestDependencies \cup LoadDependencies
        \cup LoadToolkits[call.toolkit]
        \cup (IF call.source = "edm"
              THEN {IF call.version = "latest" THEN "enaml"
                    ELSE "enaml^=" \o call.version}
              ELSE {})

ExpectedPip(call) ==
    IF call.source = "pypi"
    THEN LoadPypiDependencies
            \cup {IF call.version = "latest" THEN "enaml"
                  ELSE "enaml==" \o call.version}
    ELSE IF call.source = "github" THEN LoadRepoDependencies
    ELSE {}

ExactlyOnceEach(seq, S) ==
    /\ Range(seq) = S
    /\ \A x \in S : Count(seq, x) = 1

\* C5: whatever calls came before, the package strings a call of
\* get_parameters returns hold each package expected for that call exactly
\* once and nothing else, so no entry of an earlier call's version pin.
C5_PackagesExactlyAsExpected ==
    result.ret # <<>> =>
        /\ ExactlyOnceEach(result.ret[1].test_packages, LoadTestDependencies)
        /\ ExactlyOnceEach(result.ret[1].edm_packages, ExpectedEdm(last_call))
        /\ ExactlyOnceEach(result.ret[1].pip_packages, ExpectedPip(last_call))

\* C6: the module-level configuration sets hold what they held at module
\* load after any sequence of get_parameters calls.
C6_ConfigurationUnchanged ==
    /\ dependencies = LoadDependencies
    /\ test_dependencies = LoadTestDependencies
    /\ toolkits = LoadToolkits
    /\ pypi_dependencies = LoadPypiDependencies
    /\ repo_dependencies = LoadRepoDependencies

FirstEvent(t) ==
    CHOOSE j \in 1..Len(trace) :
        /\ trace[j].task = t
        /\ \A m \in 1..(j - 1) : trace[m].task # t

\* C7: test_clean runs install, then test, then cleanup, and cleanup runs
\* in every case, also when install or test ended with a failure.
C7_TestCleanRunsAllThree ==
    cmd = "test_clean" /\ pc = "exited" =>
        /\ TraceHas("echo", "install")
        /\ TraceHas("echo", "cleanup")
        /\ FirstEvent("install") < FirstEvent("cleanup")
        /\ TraceHas("echo", "test") =>
              /\ FirstEvent("install") < FirstEvent("test")
              /\ FirstEvent("test") < FirstEvent("cleanup")
        /\ ~C3_Failed => TraceHas("echo", "test")

\* C8: a call of get_parameters whose source is none of 'edm', 'pypi' and
\* 'github' raises ValueError and returns no Parameter Set.
C8_UnknownSourceRaises ==
    pc = "library" /\ last_call.source \notin {"edm", "pypi", "github"} =>
        result.raises = "ValueError" /\ result.ret = <<>>

C8_Witness ==
    /\ pc = "library"
    /\ last_call.source = "conda"
    /\ last_call.version = "0.9.8"
    /\ result.raises = "ValueError"

\* C9: the environment field of a returned Parameter Set is
\* "traits-enaml-{runtime}-{toolkit}" when the environment argument is None
\* and the argument itself otherwise.
C9_EnvironmentField ==
    result.ret # <<>> =>
        result.ret[1].environment =
            IF last_call.environment = None
            THEN "traits-enaml-" \o last_call.runtime \o "-"
                    \o last_call.toolkit
            ELSE last_call.environment.val

C9_Witness ==
    /\ last_call.environment = None
    /\ last_call.source = "pypi"
    /\ result.ret # <<>>
    /\ result.ret[1].environment = "traits-enaml-2.7-pyqt4"

Captured == {f \in tmp_files : GlobMatch("./.coverage*", f)}

C10_NothingBackWhenActionRaises ==
    /\ ChildFailed("test") => copied_back = {}
    /\ copied_back # {} => TraceHas("DURATION", "test")

\* C10 as first stated: result files are copied back only after the
\* wrapped action has ended and only if it ended normally, and then every
\* matching file of the temp directory is copied before the directory is
\* removed.
C10_AllCapturedOnNormalCompletion ==
    /\ C10_NothingBackWhenActionRaises
    /\ pc = "with_finally" /\ ~ChildFailed("test") =>
          Captured \subseteq copied_back

\* C10 amended: result files are copied back only after the wrapped action
\* has ended and only if it ended normally; then every matching file of the
\* temp directory is copied before the directory is removed unless one of
\* these copies raises, which ends the copying with the files before it
\* copied, and the directory is removed all the same.
C10_CapturedUnlessCopyFails ==
    /\ C10_NothingBackWhenActionRaises
    /\ pc = "with_finally" /\ ~ChildFailed("test") /\ exc = "none" =>
          Captured \subseteq copied_back
    /\ pc = "with_finally" /\ exc = "IOError" =>
          Captured \ copied_back # {}
    /\ copied_back \subseteq orig_files
    /\ LeftCallback /\ task = "test" /\ TraceHas("spawn", "test") =>
          ~tmp_exists

C10_Witness ==
    /\ pc = "exited"
    /\ task = "test"
    /\ exit_code = 0
    /\ ~tmp_exists
    /\ {".coverage.host.101", ".coverage.host.102"} \subseteq copied_back
    /\ "nosetests.log" \notin orig_files
====
